---- MODULE Spec2Model ----
(***************************************************************************)
(* Model of useWebSerial (src/app/components/SerialProvider/               *)
(* SerialProvider.tsx): the serial session hook.  The hook's refs and      *)
(* React state are the variables; every exported operation, every effect   *)
(* and every continuation after an await is one action.  The Web Serial    *)
(* transport (navigator.serial, SerialPort, its streams) is the            *)
(* environment: its promises resolve or reject nondeterministically.       *)
(***************************************************************************)
EXTENDS Integers, Sequences, FiniteSets, TLC

\* ---------------------------------------------------------------- bounds
MaxSessionText == 1    \* characters one read session receives (SpecRead)
MaxEmit == 2           \* messages one read session emits at end of stream
MaxText == 7           \* characters one read session receives (SpecFrame)
MaxChunkLen == 5       \* characters of one chunk (SpecFrame)
MaxBytes == 5          \* bytes one read session receives (SpecDecode)
MaxByteChunkLen == 2   \* bytes of one chunk (SpecDecode)

\* The serial ports of the platform: two, the least the single-connection
\* properties need.
Ports == {1, 2}
NoPort == 0            \* portRef.current === null

\* ------------------------------------------------------- text helpers
\* Text is a sequence of one-character strings; a chunk is a sequence of
\* bytes, an ASCII byte being written as its character.
Terminator == <<"c", "h", ">", " ">>
Alphabet == {"c", "h", ">", " "}

\* UTF-8: the two bytes of one two-byte character, that character, and
\* U+FFFD, which the decoder puts in place of a malformed sequence.
LeadByte == "0xC3"
ContByte == "0xA9"
TwoByteChar == "e-acute"
Replacement == "U+FFFD"
Bytes == Alphabet \cup {LeadByte, ContByte}

\* decoder.decode(value), line 256: called without the stream option, it
\* decodes the chunk on its own, and a sequence cut by the end of the chunk
\* is malformed.
RECURSIVE Decode(_)
Decode(value) ==
  IF value = <<>> THEN <<>>
  ELSE IF Head(value) = LeadByte
       THEN IF Len(value) >= 2 /\ value[2] = ContByte
            THEN <<TwoByteChar>> \o Decode(Tail(Tail(value)))
            ELSE <<Replacement>> \o Decode(Tail(value))
  ELSE IF Head(value) = ContByte
       THEN <<Replacement>> \o Decode(Tail(value))
  ELSE <<Head(value)>> \o Decode(Tail(value))

\* String.prototype.endsWith
EndsWith(s, t) ==
  /\ Len(s) >= Len(t)
  /\ SubSeq(s, Len(s) - Len(t) + 1, Len(s)) = t

\* Number of non-overlapping occurrences of t in s, scanning from the left.
RECURSIVE CountOcc(_, _)
CountOcc(s, t) ==
  IF Len(s) < Len(t) THEN 0
  ELSE IF SubSeq(s, 1, Len(t)) = t
       THEN 1 + CountOcc(SubSeq(s, Len(t) + 1, Len(s)), t)
       ELSE CountOcc(Tail(s), t)

RECURSIVE Flatten(_)
Flatten(ss) == IF ss = <<>> THEN <<>> ELSE Head(ss) \o Flatten(Tail(ss))

\* All texts over Alphabet of length 1..n.
RECURSIVE TextsOfLen(_)
TextsOfLen(n) ==
  IF n = 0 THEN {<<>>}
  ELSE {Append(s, a) : s \in TextsOfLen(n - 1), a \in Alphabet}

\* All byte sequences of length n.
RECURSIVE BytesOfLen(_)
BytesOfLen(n) ==
  IF n = 0 THEN {<<>>}
  ELSE {Append(s, b) : s \in BytesOfLen(n - 1), b \in Bytes}

\* The chunks the transport delivers: any ASCII text in SpecFrame, one
\* character in SpecRead, any bytes in SpecDecode.
ChunksOfLen == [n \in 1..MaxChunkLen |-> TextsOfLen(n)]
SessionChunks == {<<"c">>}
ByteChunksOfLen == [n \in 1..MaxByteChunkLen |-> BytesOfLen(n)]

\* ---------------------------------------------------------------- state
VARIABLES
  portState,            \* portState.current
  portRef,              \* portRef.current
  isOpen,               \* React state isOpen
  isReading,            \* React state isReading
  hasTriedAutoconnect,  \* React state hasTriedAutoconnect
  initialized,          \* webSerialContext.initialized
  ctxPorts,             \* webSerialContext.ports
  granted,              \* ports navigator.serial.getPorts() returns
  tport,                \* per port: state of the transport
  openBy,               \* per port: who awaits newPort.open()
  rlocked,              \* per port: port.readable.locked
  wlocked,              \* per port: port.writable.locked
  cancelRequested,      \* per port: port.cancelRequested
  eos,                  \* per port: the readable stream has ended
  manualPc,             \* manualConnectToPort: "idle" | "chooser"
  autoPc,               \* autoConnectToPort: "idle" | "getPorts"
  cachePc,              \* port cache effect: "effect" | "getPorts" | "done"
  effectPending,        \* the auto-connect effect is scheduled to run
  mounted,              \* the mount effects have run
  autoCalls,            \* calls of autoConnectToPort made by the effect
  readPc,               \* per port: read loop "idle" | "reading"
  writePc,              \* per port: write(): "idle" | "writing"
  completeString,       \* per port: the loop's local completeString
  emitted,              \* per port: onData calls of the read session
  received,             \* per port: text the read session has decoded
  receivedBytes,        \* per port: bytes the read session has received
  lastLen,              \* per port: length of the chunk read last
  ret,                  \* outcome the last step returned to a caller
  stopPhase             \* per port: 0, 1 once stopReading has flagged the
                        \* running loop, 2 once that loop has completed a
                        \* read since and gone on

sessionVars == <<portState, portRef, isOpen, isReading, hasTriedAutoconnect,
                 initialized, ctxPorts>>
transportVars == <<granted, tport, openBy, rlocked, wlocked, cancelRequested,
                   eos>>
pcVars == <<manualPc, autoPc, cachePc, effectPending, mounted, autoCalls,
            readPc, writePc>>
frameVars == <<completeString, emitted, received, receivedBytes, lastLen>>
histVars == <<ret, stopPhase>>
vars == <<sessionVars, transportVars, pcVars, frameVars, histVars>>

NoRet == [op |-> "none", val |-> "none"]
Ret(o, v) == [op |-> o, val |-> v]

\* port.readable is non-null exactly while the transport is opened.
Readable(p) == tport[p] = "opened"
\* availablePorts[0]: the platform lists its ports in a stable order.
FirstPort(S) == CHOOSE p \in S : \A q \in S : p <= q

Init ==
  /\ portState = "closed"
  /\ portRef = NoPort
  /\ isOpen = FALSE
  /\ isReading = FALSE
  /\ hasTriedAutoconnect = FALSE
  /\ initialized = FALSE
  /\ ctxPorts = {}
  /\ granted \in SUBSET Ports
  /\ tport = [p \in Ports |-> "closed"]
  /\ openBy = [p \in Ports |-> "none"]
  /\ rlocked = [p \in Ports |-> FALSE]
  /\ wlocked = [p \in Ports |-> FALSE]
  /\ cancelRequested = [p \in Ports |-> FALSE]
  /\ eos = [p \in Ports |-> FALSE]
  /\ manualPc = "idle"
  /\ autoPc = "idle"
  /\ cachePc = "effect"
  /\ effectPending = TRUE
  /\ mounted = FALSE
  /\ autoCalls = 0
  /\ readPc = [p \in Ports |-> "idle"]
  /\ writePc = [p \in Ports |-> "idle"]
  /\ completeString = [p \in Ports |-> <<>>]
  /\ emitted = [p \in Ports |-> <<>>]
  /\ received = [p \in Ports |-> <<>>]
  /\ receivedBytes = [p \in Ports |-> <<>>]
  /\ lastLen = [p \in Ports |-> 0]
  /\ ret = NoRet
  /\ stopPhase = [p \in Ports |-> 0]


\* ------------------------------------------------------------- openPort
\* openPort without the check of lines 193-195.
OpenPortStart_NoReadableCheck(newPort) ==
  IF tport[newPort] = "closed" THEN "pending" ELSE "rejected"

\* The outcome of the synchronous part of openPort(newPort), lines 188-205:
\* the already-opened check, then the call of newPort.open().  The
\* transport rejects open() at once unless the port is closed.
OpenPortStart(newPort) ==
  IF Readable(newPort) THEN "AlreadyOpen"
  ELSE IF tport[newPort] = "closed" THEN "pending"
  ELSE "rejected"

\* Lines 209-212: the catch block of openPort.
OpenPortCatch ==
  /\ portState' = "closed"
  /\ isOpen' = FALSE

\* openPort(newPort) called by the consumer.
OpenPort(newPort) ==
  /\ mounted
  /\ LET o == OpenPortStart(newPort) IN
       \/ /\ o = "AlreadyOpen"
          /\ ret' = Ret("openPort", "AlreadyOpen")
          /\ UNCHANGED <<portState, isOpen, tport, openBy>>
       \/ /\ o = "pending"
          /\ tport' = [tport EXCEPT ![newPort] = "opening"]
          /\ openBy' = [openBy EXCEPT ![newPort] = "direct"]
          /\ ret' = NoRet
          /\ UNCHANGED <<portState, isOpen>>
       \/ /\ o = "rejected"
          /\ OpenPortCatch
          /\ ret' = Ret("openPort", "failed")
          /\ UNCHANGED <<tport, openBy>>
  /\ UNCHANGED <<portRef, isReading, hasTriedAutoconnect, initialized,
                 ctxPorts, granted, rlocked, wlocked, cancelRequested, eos,
                 pcVars, frameVars, stopPhase>>

\* What the awaiting caller of openPort returns when openPort has finished:
\* openPort itself returns nothing, autoConnectToPort returns true (line
\* 159), manualConnectToPort has returned already (line 138 does not await).
OpenReturn(caller, outcome) ==
  CASE caller = "direct" -> Ret("openPort", outcome)
    [] caller = "auto" -> Ret("autoConnect", "true")
    [] OTHER -> NoRet

\* newPort.open() resolves: lines 206-208.
OpenResolve(p) ==
  /\ tport[p] = "opening"
  /\ tport' = [tport EXCEPT ![p] = "opened"]
  /\ openBy' = [openBy EXCEPT ![p] = "none"]
  /\ eos' = [eos EXCEPT ![p] = FALSE]
  /\ portRef' = p
  /\ portState' = "open"
  /\ isOpen' = TRUE
  /\ ret' = OpenReturn(openBy[p], "opened")
  /\ UNCHANGED <<isReading, hasTriedAutoconnect, initialized, ctxPorts,
                 granted, rlocked, wlocked, cancelRequested, pcVars,
                 frameVars, stopPhase>>

\* newPort.open() rejects: lines 209-212.
OpenReject(p) ==
  /\ tport[p] = "opening"
  /\ tport' = [tport EXCEPT ![p] = "closed"]
  /\ openBy' = [openBy EXCEPT ![p] = "none"]
  /\ OpenPortCatch
  /\ ret' = OpenReturn(openBy[p], "failed")
  /\ UNCHANGED <<portRef, isReading, hasTriedAutoconnect, initialized,
                 ctxPorts, granted, rlocked, wlocked, cancelRequested, eos,
                 pcVars, frameVars, stopPhase>>

\* ------------------------------------------------- manualConnectToPort
\* Lines 131-135 and 145: the guard, and the call of the port chooser.
ManualConnect ==
  /\ mounted
  /\ IF portState = "closed"
     THEN /\ portState' = "opening"
          /\ manualPc' = "chooser"
          /\ ret' = NoRet
     ELSE /\ ret' = Ret("manualConnect", "false")
          /\ UNCHANGED <<portState, manualPc>>
  /\ UNCHANGED <<portRef, isOpen, isReading, hasTriedAutoconnect,
                 initialized, ctxPorts, transportVars, autoPc, cachePc,
                 effectPending, mounted, autoCalls, readPc, frameVars,
                 stopPhase, writePc>>

\* requestPort() resolves with the port the user chose: lines 137-139.
\* openPort(port) is not awaited: an exception of its first lines becomes a
\* rejected promise nobody handles, and true is returned at once.
ChooserResolve(port) ==
  /\ manualPc = "chooser"
  /\ manualPc' = "idle"
  /\ granted' = granted \cup {port}
  /\ LET o == OpenPortStart(port) IN
       \/ /\ o = "AlreadyOpen"
          /\ UNCHANGED <<portState, isOpen, tport, openBy>>
       \/ /\ o = "pending"
          /\ tport' = [tport EXCEPT ![port] = "opening"]
          /\ openBy' = [openBy EXCEPT ![port] = "manual"]
          /\ UNCHANGED <<portState, isOpen>>
       \/ /\ o = "rejected"
          /\ OpenPortCatch
          /\ UNCHANGED <<tport, openBy>>
  /\ ret' = Ret("manualConnect", "true")
  /\ UNCHANGED <<portRef, isReading, hasTriedAutoconnect, initialized,
                 ctxPorts, rlocked, wlocked, cancelRequested, eos, autoPc,
                 cachePc, effectPending, mounted, autoCalls, readPc,
                 frameVars, stopPhase, writePc>>

\* requestPort() rejects, the user chose no port: lines 140-145.
ChooserReject ==
  /\ manualPc = "chooser"
  /\ manualPc' = "idle"
  /\ portState' = "closed"
  /\ ret' = Ret("manualConnect", "false")
  /\ UNCHANGED <<portRef, isOpen, isReading, hasTriedAutoconnect,
                 initialized, ctxPorts, transportVars, autoPc, cachePc,
                 effectPending, mounted, autoCalls, readPc, frameVars,
                 stopPhase, writePc>>

\* --------------------------------------------------- autoConnectToPort
\* Lines 148-154 and 165: the guard, and the call of getPorts().
AutoConnectCall ==
  IF portState = "closed"
  THEN /\ portState' = "opening"
       /\ autoPc' = "getPorts"
       /\ ret' = NoRet
  ELSE /\ ret' = Ret("autoConnect", "false")
       /\ UNCHANGED <<portState, autoPc>>

\* The effect's condition with the hasTriedAutoconnect test left out.
AutoEffectCondition_NoTried == portState = "closed"

\* Lines 348-352: the condition under which the effect calls
\* autoConnectToPort (canUseSerial is true throughout).
AutoEffectCondition == ~hasTriedAutoconnect /\ portState = "closed"

\* Lines 346-357: the auto-connect effect.  It runs after the mount and
\* after every change of hasTriedAutoconnect.
AutoConnectEffect ==
  /\ cachePc # "effect"
  /\ effectPending
  /\ effectPending' = FALSE
  /\ mounted' = TRUE
  /\ IF AutoEffectCondition
     THEN /\ AutoConnectCall
          /\ autoCalls' = autoCalls + 1
     ELSE /\ ret' = NoRet
          /\ UNCHANGED <<portState, autoPc, autoCalls>>
  /\ UNCHANGED <<portRef, isOpen, isReading, hasTriedAutoconnect,
                 initialized, ctxPorts, transportVars, manualPc, cachePc,
                 readPc, frameVars, stopPhase, writePc>>

\* getPorts() resolves: lines 155-165.
AutoGetPortsResolve ==
  /\ autoPc = "getPorts"
  /\ autoPc' = "idle"
  /\ IF granted # {}
     THEN LET port == FirstPort(granted)
              o == OpenPortStart(port) IN
            /\ \/ /\ o = "AlreadyOpen"
                  /\ ret' = Ret("autoConnect", "AlreadyOpen")
                  /\ UNCHANGED <<portState, isOpen, tport, openBy>>
               \/ /\ o = "pending"
                  /\ tport' = [tport EXCEPT ![port] = "opening"]
                  /\ openBy' = [openBy EXCEPT ![port] = "auto"]
                  /\ ret' = NoRet
                  /\ UNCHANGED <<portState, isOpen>>
               \/ /\ o = "rejected"
                  /\ OpenPortCatch
                  /\ ret' = Ret("autoConnect", "true")
                  /\ UNCHANGED <<tport, openBy>>
            /\ UNCHANGED <<hasTriedAutoconnect, effectPending>>
     ELSE /\ portState' = "closed"
          /\ hasTriedAutoconnect' = TRUE
          /\ effectPending' = (effectPending \/ ~hasTriedAutoconnect)
          /\ ret' = Ret("autoConnect", "false")
          /\ UNCHANGED <<isOpen, tport, openBy>>
  /\ UNCHANGED <<portRef, isReading, initialized, ctxPorts, granted,
                 rlocked, wlocked, cancelRequested, eos, manualPc, cachePc,
                 mounted, autoCalls, readPc, frameVars, stopPhase, writePc>>

\* ------------------------------------------------- port cache effect
\* Lines 310-316: the effect's synchronous part.
CacheEffect ==
  /\ cachePc = "effect"
  /\ IF initialized
     THEN cachePc' = "done" /\ UNCHANGED initialized
     ELSE cachePc' = "getPorts" /\ initialized' = TRUE
  /\ ret' = NoRet
  /\ UNCHANGED <<portState, portRef, isOpen, isReading, hasTriedAutoconnect,
                 ctxPorts, transportVars, manualPc, autoPc, effectPending,
                 mounted, autoCalls, readPc, frameVars, stopPhase, writePc>>

\* Lines 317-323: getPorts() resolves.
CacheResolve ==
  /\ cachePc = "getPorts"
  /\ cachePc' = "done"
  /\ IF granted # {}
     THEN /\ ctxPorts' = granted
          /\ portRef' = FirstPort(granted)
     ELSE UNCHANGED <<ctxPorts, portRef>>
  /\ ret' = NoRet
  /\ UNCHANGED <<portState, isOpen, isReading, hasTriedAutoconnect,
                 initialized, transportVars, manualPc, autoPc, effectPending,
                 mounted, autoCalls, readPc, frameVars, stopPhase, writePc>>


\* ------------------------------------------------------------ closePort
\* closePort without the check of lines 226-228.
ClosePortCheck_NoLockCheck(port) ==
  IF port = NoPort THEN "NoPort"
  ELSE IF ~Readable(port) THEN "NotOpen"
  ELSE "close"

\* Lines 217-228: the checks of closePort on port = portRef.current.
ClosePortCheck(port) ==
  IF port = NoPort THEN "NoPort"
  ELSE IF ~Readable(port) THEN "NotOpen"
  ELSE IF rlocked[port] THEN "PortLocked"
  ELSE "close"

\* closePort() called by the consumer: lines 216-230.  port.close() with
\* the writable stream locked by a write in flight is rejected by the
\* transport at once.
ClosePort ==
  /\ mounted
  /\ LET c == ClosePortCheck(portRef) IN
       IF c # "close"
       THEN /\ ret' = Ret("closePort", c)
            /\ UNCHANGED tport
       ELSE IF wlocked[portRef]
       THEN /\ ret' = Ret("closePort", "TransportFailure")
            /\ UNCHANGED tport
       ELSE /\ tport' = [tport EXCEPT ![portRef] = "closing"]
            /\ ret' = NoRet
  /\ UNCHANGED <<sessionVars, granted, openBy, rlocked, wlocked,
                 cancelRequested, eos, pcVars, frameVars, stopPhase>>

\* port.close() resolves: line 232.
CloseResolve(p) ==
  /\ tport[p] = "closing"
  /\ tport' = [tport EXCEPT ![p] = "closed"]
  /\ isOpen' = FALSE
  /\ ret' = Ret("closePort", "closed")
  /\ UNCHANGED <<portState, portRef, isReading, hasTriedAutoconnect,
                 initialized, ctxPorts, granted, openBy, rlocked, wlocked,
                 cancelRequested, eos, pcVars, frameVars, stopPhase>>

\* port.close() rejects: the error leaves closePort at line 230; the
\* transport may or may not have closed the port.
CloseReject(p) ==
  /\ tport[p] = "closing"
  /\ \E t \in {"closed", "opened"} : tport' = [tport EXCEPT ![p] = t]
  /\ ret' = Ret("closePort", "TransportFailure")
  /\ UNCHANGED <<sessionVars, granted, openBy, rlocked, wlocked,
                 cancelRequested, eos, pcVars, frameVars, stopPhase>>

\* ------------------------------------------- startReading, stopReading
\* A loop that leaves without the finally block of lines 264-266.
ReleaseLock_Forgotten(locks, p) == locks

\* reader.releaseLock(), line 265.
ReleaseLock(locks, p) == [locks EXCEPT ![p] = FALSE]

\* The terminator looked for in the chunk instead of in completeString.
FrameStep_ChunkOnly(buf, text, done) ==
  LET s == buf \o text IN
    IF done \/ EndsWith(text, Terminator)
    THEN [emit |-> TRUE, msg |-> s, buf |-> <<>>]
    ELSE [emit |-> FALSE, msg |-> <<>>, buf |-> s]

\* Lines 256-261: the decoded chunk appended to completeString, and the
\* decision to emit.  text is decoder.decode(value), the empty text when
\* done.
FrameStep(buf, text, done) ==
  LET s == buf \o text IN
    IF done \/ EndsWith(s, Terminator)
    THEN [emit |-> TRUE, msg |-> s, buf |-> <<>>]
    ELSE [emit |-> FALSE, msg |-> <<>>, buf |-> s]

\* startReading() called by the consumer: lines 235-251.  getReader()
\* throws when the stream is locked, after lines 246-247 have run.
StartReading ==
  /\ mounted
  /\ IF portRef = NoPort \/ ~Readable(portRef)
     THEN /\ ret' = Ret("startReading",
                        IF portRef = NoPort THEN "NoPort" ELSE "NotOpen")
          /\ UNCHANGED <<isReading, cancelRequested, rlocked, readPc,
                         frameVars, stopPhase>>
     ELSE /\ isReading' = TRUE
          /\ cancelRequested' = [cancelRequested EXCEPT ![portRef] = FALSE]
          /\ IF rlocked[portRef]
             THEN /\ ret' = Ret("startReading", "ReaderLocked")
                  /\ UNCHANGED <<rlocked, readPc, frameVars, stopPhase>>
             ELSE /\ rlocked' = [rlocked EXCEPT ![portRef] = TRUE]
                  /\ readPc' = [readPc EXCEPT ![portRef] = "reading"]
                  /\ completeString' =
                       [completeString EXCEPT ![portRef] = <<>>]
                  /\ emitted' = [emitted EXCEPT ![portRef] = <<>>]
                  /\ received' = [received EXCEPT ![portRef] = <<>>]
                  /\ receivedBytes' =
                       [receivedBytes EXCEPT ![portRef] = <<>>]
                  /\ lastLen' = [lastLen EXCEPT ![portRef] = 0]
                  /\ stopPhase' = [stopPhase EXCEPT ![portRef] = 0]
                  /\ ret' = NoRet
  /\ UNCHANGED <<portState, portRef, isOpen, hasTriedAutoconnect,
                 initialized, ctxPorts, granted, tport, openBy, wlocked, eos,
                 manualPc, autoPc, cachePc, effectPending, mounted,
                 autoCalls, writePc>>

\* stopReading() called by the consumer: lines 269-281.
StopReading ==
  /\ mounted
  /\ IF portRef = NoPort \/ ~Readable(portRef)
     THEN /\ ret' = Ret("stopReading",
                        IF portRef = NoPort THEN "NoPort" ELSE "NotOpen")
          /\ UNCHANGED <<isReading, cancelRequested, stopPhase>>
     ELSE /\ isReading' = FALSE
          /\ cancelRequested' = [cancelRequested EXCEPT ![portRef] = TRUE]
          /\ stopPhase' = [stopPhase EXCEPT
                             ![portRef] = IF readPc[portRef] = "reading"
                                          THEN IF @ = 0 THEN 1 ELSE @
                                          ELSE @]
          /\ ret' = Ret("stopReading", "returned")
  /\ UNCHANGED <<portState, portRef, isOpen, hasTriedAutoconnect,
                 initialized, ctxPorts, granted, tport, openBy, rlocked,
                 wlocked, eos, pcVars, frameVars>>

\* The read session is over: completeString goes out of scope, and the
\* session's record of what was received and emitted is dropped.
EndSession(p) ==
  /\ completeString' = [completeString EXCEPT ![p] = <<>>]
  /\ emitted' = [emitted EXCEPT ![p] = <<>>]
  /\ received' = [received EXCEPT ![p] = <<>>]
  /\ receivedBytes' = [receivedBytes EXCEPT ![p] = <<>>]
  /\ lastLen' = [lastLen EXCEPT ![p] = 0]
  /\ stopPhase' = [stopPhase EXCEPT ![p] = 0]

\* Lines 256-263: the callback of a completed read, then the loop
\* condition, then the finally block of lines 264-266 when the loop is left.
\* The callback runs for the last read too; what it emits then goes with
\* the record of the session, which EndSession drops.
LoopStep(p, value, done) ==
  LET text == Decode(value)
      f == FrameStep(completeString[p], text, done) IN
    IF cancelRequested[p]
    THEN /\ rlocked' = ReleaseLock(rlocked, p)
         /\ readPc' = [readPc EXCEPT ![p] = "idle"]
         /\ EndSession(p)
         /\ ret' = Ret("startReading", "returned")
    ELSE /\ completeString' = [completeString EXCEPT ![p] = f.buf]
         /\ emitted' = [emitted EXCEPT
                          ![p] = IF f.emit THEN Append(@, f.msg) ELSE @]
         /\ received' = [received EXCEPT ![p] = @ \o text]
         /\ receivedBytes' = [receivedBytes EXCEPT ![p] = @ \o value]
         /\ lastLen' = [lastLen EXCEPT ![p] = Len(text)]
         /\ stopPhase' = [stopPhase EXCEPT ![p] = IF @ = 0 THEN 0 ELSE 2]
         /\ ret' = NoRet
         /\ UNCHANGED <<rlocked, readPc>>

\* reader.read() resolves with a chunk: lines 255-263.
ReadChunk(p, chunk) ==
  /\ readPc[p] = "reading"
  /\ ~eos[p]
  /\ LoopStep(p, chunk, FALSE)
  /\ UNCHANGED <<sessionVars, granted, tport, openBy, wlocked,
                 cancelRequested, eos, manualPc, autoPc, cachePc,
                 effectPending, mounted, autoCalls, writePc>>

\* reader.read() resolves with done, the stream has ended: lines 255-263.
\* value is undefined, which decodes as no bytes do.
ReadDone(p) ==
  /\ readPc[p] = "reading"
  /\ Len(emitted[p]) < MaxEmit
  /\ eos' = [eos EXCEPT ![p] = TRUE]
  /\ LoopStep(p, <<>>, TRUE)
  /\ UNCHANGED <<sessionVars, granted, tport, openBy, wlocked,
                 cancelRequested, manualPc, autoPc, cachePc,
                 effectPending, mounted, autoCalls, writePc>>

\* reader.read() rejects: the finally block of lines 264-266 runs and the
\* error leaves startReading.
ReadError(p) ==
  /\ readPc[p] = "reading"
  /\ ~eos[p]
  /\ rlocked' = ReleaseLock(rlocked, p)
  /\ readPc' = [readPc EXCEPT ![p] = "idle"]
  /\ EndSession(p)
  /\ ret' = Ret("startReading", "TransportFailure")
  /\ UNCHANGED <<sessionVars, granted, tport, openBy, wlocked,
                 cancelRequested, eos, manualPc, autoPc, cachePc,
                 effectPending, mounted, autoCalls, writePc>>

\* ---------------------------------------------------------------- write
\* Line 293 with plain member access in place of the optional chaining.
WriteStart_NoOptionalChain(port) ==
  IF port = NoPort \/ ~Readable(port) THEN "TypeError"
  ELSE IF wlocked[port] THEN "WriterLocked"
  ELSE "write"

\* Line 293, port?.writable?.getWriter(): with no port, or a port without a
\* writable stream, the writer is undefined and lines 294-298 do nothing;
\* port.writable is non-null exactly while the transport is opened;
\* getWriter() throws when the stream is locked.
WriteStart(port) ==
  IF port = NoPort \/ ~Readable(port) THEN "returned"
  ELSE IF wlocked[port] THEN "WriterLocked"
  ELSE "write"

\* write(message) called by the consumer: lines 287-295.
Write ==
  /\ mounted
  /\ LET o == WriteStart(portRef) IN
       IF o = "write"
       THEN /\ wlocked' = [wlocked EXCEPT ![portRef] = TRUE]
            /\ writePc' = [writePc EXCEPT ![portRef] = "writing"]
            /\ ret' = NoRet
       ELSE /\ ret' = Ret("write", o)
            /\ UNCHANGED <<wlocked, writePc>>
  /\ UNCHANGED <<sessionVars, granted, tport, openBy, rlocked,
                 cancelRequested, eos, manualPc, autoPc, cachePc,
                 effectPending, mounted, autoCalls, readPc, frameVars,
                 stopPhase>>

\* A write that releases the lock after the awaited write, not in a finally
\* block.
WriteFinally_OnSuccessOnly(locks, p, outcome) ==
  IF outcome = "written" THEN ReleaseLock(locks, p) ELSE locks

\* Lines 296-298: writer.releaseLock() in the finally block, whatever the
\* outcome of the awaited write.
WriteFinally(locks, p, outcome) == ReleaseLock(locks, p)

\* writer.write(data) resolves or rejects: lines 294-298.
WriteEnd(p, outcome) ==
  /\ writePc[p] = "writing"
  /\ wlocked' = WriteFinally(wlocked, p, outcome)
  /\ writePc' = [writePc EXCEPT ![p] = "idle"]
  /\ ret' = Ret("write", outcome)
  /\ UNCHANGED <<sessionVars, granted, tport, openBy, rlocked,
                 cancelRequested, eos, manualPc, autoPc, cachePc,
                 effectPending, mounted, autoCalls, readPc, frameVars,
                 stopPhase>>
WriteResolve(p) == WriteEnd(p, "written")
WriteReject(p) == WriteEnd(p, "TransportFailure")

\* ------------------------------------------------------- specifications
\* The connection life cycle: the mount effects, the connect operations,
\* openPort and closePort.
Next ==
  \/ CacheEffect
  \/ CacheResolve
  \/ AutoConnectEffect
  \/ AutoGetPortsResolve
  \/ ManualConnect
  \/ \E p \in Ports : ChooserResolve(p)
  \/ ChooserReject
  \/ \E p \in Ports : OpenPort(p)
  \/ \E p \in Ports : OpenResolve(p)
  \/ \E p \in Ports : OpenReject(p)
  \/ ClosePort
  \/ \E p \in Ports : CloseResolve(p)
  \/ \E p \in Ports : CloseReject(p)

Spec == Init /\ [][Next]_vars

\* The read loop within the life of the ports: the mount effects, openPort
\* and closePort, startReading and stopReading, and the reads of the loop.
ReadNext ==
  \/ CacheEffect
  \/ CacheResolve
  \/ AutoConnectEffect
  \/ AutoGetPortsResolve
  \/ \E p \in Ports : OpenPort(p)
  \/ \E p \in Ports : OpenResolve(p)
  \/ \E p \in Ports : OpenReject(p)
  \/ ClosePort
  \/ \E p \in Ports : CloseResolve(p)
  \/ \E p \in Ports : CloseReject(p)
  \/ StartReading
  \/ StopReading
  \/ \E p \in Ports, c \in SessionChunks :
       Len(received[p]) + Len(c) <= MaxSessionText /\ ReadChunk(p, c)
  \/ \E p \in Ports : ReadDone(p)
  \/ \E p \in Ports : ReadError(p)

SpecRead == Init /\ [][ReadNext]_vars

\* The framing of one read session: port 1 has been opened by openPort and
\* startReading has started the loop; the transport delivers chunks of any
\* text, or ends the stream.
InitFrame ==
  /\ portState = "open"
  /\ portRef = 1
  /\ isOpen = TRUE
  /\ isReading = TRUE
  /\ hasTriedAutoconnect = TRUE
  /\ initialized = TRUE
  /\ ctxPorts = {}
  /\ granted = {}
  /\ tport = [p \in Ports |-> IF p = 1 THEN "opened" ELSE "closed"]
  /\ openBy = [p \in Ports |-> "none"]
  /\ rlocked = [p \in Ports |-> p = 1]
  /\ wlocked = [p \in Ports |-> FALSE]
  /\ cancelRequested = [p \in Ports |-> FALSE]
  /\ eos = [p \in Ports |-> FALSE]
  /\ manualPc = "idle"
  /\ autoPc = "idle"
  /\ cachePc = "done"
  /\ effectPending = FALSE
  /\ mounted = TRUE
  /\ autoCalls = 1
  /\ readPc = [p \in Ports |-> IF p = 1 THEN "reading" ELSE "idle"]
  /\ writePc = [p \in Ports |-> "idle"]
  /\ completeString = [p \in Ports |-> <<>>]
  /\ emitted = [p \in Ports |-> <<>>]
  /\ received = [p \in Ports |-> <<>>]
  /\ receivedBytes = [p \in Ports |-> <<>>]
  /\ lastLen = [p \in Ports |-> 0]
  /\ ret = NoRet
  /\ stopPhase = [p \in Ports |-> 0]

FrameNext ==
  \/ \E n \in 1..MaxChunkLen :
       /\ Len(received[1]) + n <= MaxText
       /\ \E c \in ChunksOfLen[n] : ReadChunk(1, c)
  \/ ReadDone(1)

SpecFrame == InitFrame /\ [][FrameNext]_vars

\* Writing: the mount effects, openPort and closePort, and write with the
\* transport resolving or rejecting it.
WriteNext ==
  \/ CacheEffect
  \/ CacheResolve
  \/ AutoConnectEffect
  \/ AutoGetPortsResolve
  \/ \E p \in Ports : OpenPort(p)
  \/ \E p \in Ports : OpenResolve(p)
  \/ \E p \in Ports : OpenReject(p)
  \/ ClosePort
  \/ \E p \in Ports : CloseResolve(p)
  \/ \E p \in Ports : CloseReject(p)
  \/ Write
  \/ \E p \in Ports : WriteResolve(p)
  \/ \E p \in Ports : WriteReject(p)

SpecWrite == Init /\ [][WriteNext]_vars

\* The same read session with chunks of any bytes: a character of two bytes
\* may arrive whole, or cut by the end of a chunk.
DecodeNext ==
  \/ \E n \in 1..MaxByteChunkLen :
       /\ Len(receivedBytes[1]) + n <= MaxBytes
       /\ \E c \in ByteChunksOfLen[n] : ReadChunk(1, c)
  \/ ReadDone(1)

SpecDecode == InitFrame /\ [][DecodeNext]_vars

\* ----------------------------------------------------------- properties
ConnectOps == {"manualConnect", "autoConnect"}
OpenAtTransport == {p \in Ports : tport[p] = "opened"}

\* C1: a closePort() called once stopReading() has returned does not fail
\* with the "port is locked" error.
C1_CloseAfterStopNotLocked ==
  [][(ret = Ret("stopReading", "returned") /\ ret'.op = "closePort")
       => ret'.val # "PortLocked"]_vars

\* C2: closePort() called while a read loop holds the lock of the readable
\* stream fails with PortLocked, does not call the transport's close, and
\* leaves the connection state, the held port and isOpen as they were.
C2_LockedCloseRejected ==
  [][(ClosePort /\ portRef # NoPort /\ Readable(portRef) /\ rlocked[portRef])
       => /\ ret' = Ret("closePort", "PortLocked")
          /\ UNCHANGED <<portState, portRef, isOpen, tport>>]_vars

\* C2, the case: closePort() has just been called with the loop of the held
\* port waiting for its next chunk.
C2_Witness ==
  /\ ret = Ret("closePort", "PortLocked")
  /\ portRef # NoPort
  /\ readPc[portRef] = "reading"
  /\ rlocked[portRef]
  /\ portState = "open"

\* C3: when closePort() has succeeded, the connection state is Closed.
C3_CloseReturnsToClosed ==
  ret = Ret("closePort", "closed") => portState = "closed"

\* C4: a port is held only while the state is not Closed, and a port is
\* held whenever the state is Open.
C4_PortRefIffConnected ==
  /\ portState = "closed" => portRef = NoPort
  /\ portState = "open" => portRef # NoPort

\* C5: at most one port is open at the transport at any time.
C5_AtMostOneOpen == Cardinality(OpenAtTransport) <= 1

\* C6: while the stream has not ended, the read session has emitted as many
\* messages as the text received contains non-overlapping occurrences of the
\* terminator, whatever the split into chunks, and the messages are the text
\* received cut after each occurrence.
C6_OneMessagePerTerminator ==
  \A p \in Ports :
    (readPc[p] = "reading" /\ ~eos[p])
      => /\ Len(emitted[p]) = CountOcc(received[p], Terminator)
         /\ \A i \in 1..Len(emitted[p]) :
              /\ CountOcc(emitted[p][i], Terminator) = 1
              /\ EndsWith(emitted[p][i], Terminator)

C8_StopEndsLoop == \A p \in Ports : stopPhase[p] # 2

\* C9: the lock of the readable stream is held exactly while a read loop is
\* running; a loop that has ended, by cancellation or by a failing read, has
\* released it.
C9_LockOnlyWhileReading ==
  \A p \in Ports : rlocked[p] <=> readPc[p] = "reading"

\* C9, the case: the loop of the held port has just ended by a failing read,
\* the port is still open and its stream is unlocked.
C9_Witness ==
  /\ ret = Ret("startReading", "TransportFailure")
  /\ portRef # NoPort
  /\ Readable(portRef)
  /\ readPc[portRef] = "idle"
  /\ ~rlocked[portRef]

\* C10: a connect operation returns true or false, never an error, and
\* true only with the port open and the state Open.
C10_TrueOnlyWhenOpen ==
  ret.op \in ConnectOps
    => /\ ret.val \in {"true", "false"}
       /\ ret.val = "true" => (portState = "open" /\ isOpen)

\* C11: openPort() on a port whose readable stream exists fails with
\* AlreadyOpen and does not call the transport's open: the transport and
\* the session are as they were.
C11_SecondOpenRejected ==
  [][\A p \in Ports :
       (OpenPort(p) /\ Readable(p))
         => /\ ret' = Ret("openPort", "AlreadyOpen")
            /\ UNCHANGED <<sessionVars, tport, openBy>>]_vars

\* C11, the case: openPort() has just been refused for a port that is open.
C11_Witness ==
  /\ ret = Ret("openPort", "AlreadyOpen")
  /\ \E p \in Ports : Readable(p)

\* C12: autoConnectToPort() with no authorized port returns false with the
\* state Closed (and the attempt recorded), and the mount effect calls
\* autoConnectToPort at most once in the life of the session.
C12_AutoConnectOnce ==
  /\ autoCalls <= 1
  /\ (ret = Ret("autoConnect", "false"))
       => (portState = "closed" /\ hasTriedAutoconnect /\ granted = {})

\* C12, the case: the one automatic attempt has found no authorized port
\* and has returned false.
C12_Witness ==
  /\ ret = Ret("autoConnect", "false")
  /\ granted = {}
  /\ autoCalls = 1

\* The connect attempts suspended inside manualConnectToPort or
\* autoConnectToPort: at the port chooser, at getPorts(), or at the awaited
\* openPort of autoConnectToPort.
AttemptsInProgress ==
  (IF manualPc = "chooser" THEN 1 ELSE 0)
  + (IF autoPc = "getPorts" THEN 1 ELSE 0)
  + Cardinality({p \in Ports : tport[p] = "opening" /\ openBy[p] = "auto"})

\* C13: at most one connect attempt is in progress at any time.
C13_OneConnectAttempt == AttemptsInProgress <= 1

\* No connect attempt is under way: neither function is suspended and no
\* open() started by one of them is in flight.
ConnectAttemptsFinished ==
  /\ manualPc = "idle"
  /\ autoPc = "idle"
  /\ \A p \in Ports : tport[p] = "opening" => openBy[p] = "direct"

\* C16: once every connect attempt has finished, inner openPort included,
\* the state is Open or Closed, never left at Opening.
C16_AttemptLeavesOpening ==
  ConnectAttemptsFinished => portState # "opening"

\* C17: while the state is Closed no port is open at the transport.
C17_ClosedMeansNoneOpen ==
  portState = "closed" => OpenAtTransport = {}

\* C18: a startReading() refused because a read loop holds the reader
\* leaves that loop alone: no second reader is acquired and the
\* cancellation request set by stopReading() is kept.
C18_RefusedStartKeepsCancel ==
  [][(ret' = Ret("startReading", "ReaderLocked"))
       => UNCHANGED <<rlocked, readPc, cancelRequested>>]_vars

\* C19: the read that reports end-of-stream emits the buffered text as one
\* message and clears the buffer, and once end-of-stream has been reported
\* the read session emits nothing more.
C19_OneMessageAtEndOfStream ==
  [][\A p \in Ports :
       (readPc[p] = "reading" /\ readPc'[p] = "reading" /\ eos'[p])
         => IF eos[p]
            THEN emitted'[p] = emitted[p]
            ELSE /\ emitted'[p] = Append(emitted[p], completeString[p])
                 /\ completeString'[p] = <<>>]_vars

\* C20: within one read session, at every step the messages emitted so far
\* followed by the buffer are the text of all the chunks received so far,
\* and the buffer is empty right after each emission.
C20_NothingLostBeforeEmission ==
  [][\A p \in Ports :
       readPc'[p] = "reading"
         => /\ Flatten(emitted'[p]) \o completeString'[p]
                 = Decode(receivedBytes'[p])
            /\ (emitted'[p] # emitted[p] => completeString'[p] = <<>>)]_vars

\* C14: the lock of the writable stream is held exactly while a write() call
\* is under way: once the call has ended, also with a failed transport
\* write, the stream is unlocked and the next write() acquires it.
C14_WriteReleasesLock ==
  /\ \A p \in Ports : wlocked[p] <=> writePc[p] = "writing"
  /\ (ret.op = "write" /\ ret.val \in {"written", "TransportFailure"}
      /\ portRef # NoPort /\ Readable(portRef)
      /\ writePc[portRef] = "idle")
       => WriteStart(portRef) = "write"

\* C14, the case: a write() has just ended with a failed transport write,
\* and the port it wrote to is open and unlocked.
C14_Witness ==
  /\ ret = Ret("write", "TransportFailure")
  /\ portRef # NoPort
  /\ Readable(portRef)
  /\ writePc[portRef] = "idle"
  /\ ~wlocked[portRef]

\* C15: write() with no held port, or with a held port that has no writable
\* stream, returns without an error, acquires no lock, starts no transport
\* write and leaves the session as it was.
C15_WriteWithoutPortIsNoOp ==
  [][(Write /\ (portRef = NoPort \/ ~Readable(portRef)))
       => /\ ret' = Ret("write", "returned")
          /\ UNCHANGED <<sessionVars, transportVars, writePc>>]_vars

\* C15, the case: write() has just returned and no port is open for it.
C15_Witness ==
  /\ ret = Ret("write", "returned")
  /\ (portRef = NoPort \/ ~Readable(portRef))

====
